---- MODULE Spec2Model ----
(***************************************************************************)
(* NP Atobarai payment gateway client                                      *)
(* (saleor/payment/gateways/np_atobarai/api.py).                           *)
(*                                                                         *)
(* Every public operation (register_transaction, cancel_transaction,       *)
(* health_check) is a synchronous call that blocks only inside             *)
(* np_request.  A call is modelled as the code that runs up to the         *)
(* request, followed by the code that runs once the provider has answered  *)
(* (or the transport has failed).  The provider's answer is an input.      *)
(*                                                                         *)
(* Python values: Optional[x] is <<>> (None / key absent) or <<x>>;        *)
(* a JSON object is a record whose fields are Optional (key present or     *)
(* not); a JSON array is a sequence.                                       *)
(***************************************************************************)
EXTENDS Naturals, Sequences, FiniteSets

\* ---------------------------------------------------------------- bounds
\* Longest list of codes (authori_hold, errors[i].codes) in a response.
MaxCodes == 2
\* Longest sequence of line items of a payment.
MaxLines == 2
\* Longest phone number, in characters.
MaxPhone == 4

\* ------------------------------------------------------------ python data
None == <<>>
Some(x) == <<x>>

\* dict lookups: "k in d" and d["k"]
Has(d, k) == d[k] # None
Get(d, k) == d[k][1]

\* set(list)
ToSet(list) == {list[i] : i \in 1..Len(list)}

SeqsUpTo(S, n) == UNION {[1..k -> S] : k \in 0..n}

\* The orders in which Python may iterate a set.
Orderings(S) ==
    {s \in [1..Cardinality(S) -> S] : \A i, j \in 1..Cardinality(S) : i # j => s[i] # s[j]}

\* ------------------------------------------------------------- exceptions
NoExc == [type |-> "", message |-> ""]
PaymentError(message) == [type |-> "PaymentError", message |-> message]
KeyError(key) == [type |-> "KeyError", message |-> key]
IndexError == [type |-> "IndexError", message |-> "list index out of range"]
JSONDecodeError == [type |-> "JSONDecodeError", message |-> "response body is not JSON"]

\* --------------------------------------------------------------- api_types
PaymentStatus == [SUCCESS |-> "SUCCESS", PENDING |-> "PENDING", FAILED |-> "FAILED"]

PaymentResult(status, psp_reference, errors) ==
    [status |-> status, psp_reference |-> psp_reference, errors |-> errors]

\* ------------------------------------------------------------------ errors
UNKNOWN_ERROR == [table |-> "generic", code |-> "unknown"]

\* A code translated through one of the message tables.
get_error_messages_from_codes(error_codes, error_enum_cls) ==
    Orderings({[table |-> error_enum_cls, code |-> c] : c \in error_codes})

get_reason_messages_from_codes(reason_codes) ==
    get_error_messages_from_codes(reason_codes, "PendingReason")

TransactionRegistrationResultError == "TransactionRegistrationResultError"
TransactionCancellationResultError == "TransactionCancellationResultError"

\* ------------------------------------------------------------------ inputs
Procs == {1, 2}

Codes == {"c1", "c2"}
TransactionIds == {"T1", "T2"}
\* authori_result as sent by the provider: the three statuses and one other value
AuthoriResults == {"SUCCESS", "PENDING", "FAILED", "NG"}
StatusCodes == {200, 401, 403, 500}

CodeLists == SeqsUpTo(Codes, MaxCodes)

ResultObjects ==
    [authori_result : {None} \cup {Some(a) : a \in AuthoriResults},
     np_transaction_id : {None} \cup {Some(t) : t \in TransactionIds}]
OtherResult == [authori_result |-> Some("SUCCESS"), np_transaction_id |-> Some("T2")]
ResultLists ==
    {<<>>} \cup {<<r>> : r \in ResultObjects} \cup {<<r, OtherResult>> : r \in ResultObjects}

ErrorObjects == [codes : {None} \cup {Some(l) : l \in CodeLists}]
OtherError == [codes |-> Some(<<"c2">>)]
ErrorLists ==
    {<<>>} \cup {<<e>> : e \in ErrorObjects} \cup {<<e, OtherError>> : e \in ErrorObjects}

\* Response bodies.  valid_json = FALSE is a body response.json() cannot parse.
JsonBodies ==
    [valid_json : {TRUE},
     results : {None} \cup {Some(l) : l \in ResultLists},
     authori_hold : {None} \cup {Some(l) : l \in CodeLists},
     errors : {None} \cup {Some(l) : l \in ErrorLists}]
NotJson == [valid_json |-> FALSE, results |-> None, authori_hold |-> None, errors |-> None]
EmptyBody == [valid_json |-> TRUE, results |-> None, authori_hold |-> None, errors |-> None]

RegistrationBodies == JsonBodies \cup {NotJson}
CancellationBodies ==
    {b \in JsonBodies : b.results = None /\ b.authori_hold = None} \cup {NotJson}

ApiConfigs == [test_mode : BOOLEAN]

\* A str is the sequence of its characters.
PhoneChars == {"+", "8", "1", "9"}
Phones == SeqsUpTo(PhoneChars, MaxPhone)
JapanesePhone == <<"+", "8", "1", "9">>

\* A Decimal amount is counted in hundredths: 1999 is 19.99.
Amounts == {100, 1999}
Currencies == {"JPY", "USD"}

LineItems == [quantity : {1, 2}, description : {"a", "b"}, gross : Amounts]
LineLists == SeqsUpTo(LineItems, MaxLines)
OneLine == <<[quantity |-> 1, description |-> "a", gross |-> 100]>>

\* An address whose postal code the Posuto database knows, and one it does not.
Addresses == [postal_code : {"1020083", "0000000"}, phone : {JapanesePhone}]
KnownAddress(phone) == [postal_code |-> "1020083", phone |-> phone]

PaymentDatas ==
    [payment_id : {1},
     amount : {100},
     currency : {"JPY"},
     billing : {None} \cup {Some(a) : a \in Addresses},
     shipping : {None} \cup {Some(a) : a \in Addresses},
     lines : {OneLine}]
NoPayment ==
    [payment_id |-> 1, amount |-> 100, currency |-> "JPY", billing |-> None, shipping |-> None,
     lines |-> <<>>]

\* A payment with both parties at known addresses.
Order(payment_id, billing_phone, shipping_phone, currency, amount, lines) ==
    [payment_id |-> payment_id, amount |-> amount, currency |-> currency,
     billing |-> Some(KnownAddress(billing_phone)),
     shipping |-> Some(KnownAddress(shipping_phone)),
     lines |-> lines]

\* Payments that range over the line items and over the phone of either party.
PayloadPaymentDatas ==
    {Order(1, JapanesePhone, JapanesePhone, c, a, l) :
        c \in Currencies, a \in Amounts, l \in LineLists}
    \cup {Order(1, b, JapanesePhone, "JPY", 100, OneLine) : b \in Phones}
    \cup {Order(1, JapanesePhone, d, "JPY", 100, OneLine) : d \in Phones}

\* Payment.psp_reference in the host's ledger: None, "" or a provider id
PspReferences == {None, Some("")} \cup {Some(t) : t \in TransactionIds}

\* ------------------------------------------------------------------- const
NP_URL == "NP_URL"
NP_TEST_URL == "NP_TEST_URL"

\* -------------------------------------------------------------------- state
VARIABLES
    scenario,             \* which inputs the calls are given (fixed by the initial state)
    active,               \* the processes that make calls
    pc,                   \* where each process is in its call
    op,                   \* the public operation a process is running
    config,               \* the ApiConfig argument of the call
    payment_information,  \* the PaymentData argument of the call
    psp_reference,        \* cancel_transaction: Payment.psp_reference in the host's ledger
    response_data,        \* register_transaction: the registration response, None until it arrives
    cancel_response,      \* the answer to the cancellation request, None until it arrives
    status_code,          \* health_check: response.status_code, None until it arrives
    requests,             \* the requests handed to requests.request during the call
    log,                  \* logger.error events emitted during the call
    ret                   \* what the call gave its caller

vars ==
    <<scenario, active, pc, op, config, payment_information, psp_reference, response_data,
      cancel_response, status_code, requests, log, ret>>

NoPaymentResult == PaymentResult("", None, <<>>)
NoReturn == [kind |-> "none", payment_result |-> NoPaymentResult, bool |-> FALSE, exc |-> NoExc]
Returned(payment_result) ==
    [kind |-> "returned", payment_result |-> payment_result, bool |-> FALSE, exc |-> NoExc]
ReturnedBool(b) ==
    [kind |-> "returned", payment_result |-> NoPaymentResult, bool |-> b, exc |-> NoExc]
Raised(exc) ==
    [kind |-> "raised", payment_result |-> NoPaymentResult, bool |-> FALSE, exc |-> exc]

\* ------------------------------------------------------------ gateway client
\* Mutant of get_url: the test_mode flag is not consulted.
get_urlProduction(cfg, path) == [base |-> NP_URL, path |-> path]

get_url(cfg, path) == [base |-> IF cfg.test_mode THEN NP_TEST_URL ELSE NP_URL, path |-> path]

\* The arguments np_request passes to requests.request.
np_request(cfg, method, path, json) ==
    [method |-> method, url |-> get_url(cfg, path), json |-> json]

EmptyJson == [transactions |-> None]
Transactions(txn) == [transactions |-> Some(<<txn>>)]

\* ------------------------------------------------------------------- _cancel
\* A transaction record none of whose keys is set.
EmptyTransaction ==
    [shop_transaction_id |-> None, np_transaction_id |-> None, billed_amount |-> None,
     customer |-> None, dest_customer |-> None, goods |-> None]

\* Mutant of CancelData: the id goes under the wrong key.
CancelDataWrongKey(transaction_id) ==
    Transactions([EmptyTransaction EXCEPT !.shop_transaction_id = Some(transaction_id)])

\* data of _cancel
CancelData(transaction_id) ==
    Transactions([EmptyTransaction EXCEPT !.np_transaction_id = Some(transaction_id)])

\* What _cancel makes of the provider's answer: the error codes, or an exception.
CancelParsed(codes) == [exc |-> NoExc, codes |-> codes]
CancelFailed(exc) == [exc |-> exc, codes |-> {}]

\* Mutant of _cancel: "if errors is None" for "if not errors".
_cancelErrorsIsNone(body) ==
    IF ~body.valid_json THEN CancelFailed(JSONDecodeError)
    ELSE IF ~Has(body, "errors") THEN CancelParsed({})
    ELSE IF Get(body, "errors") = <<>> THEN CancelFailed(IndexError)
    ELSE IF ~Has(Get(body, "errors")[1], "codes") THEN CancelFailed(KeyError("codes"))
    ELSE CancelParsed(ToSet(Get(Get(body, "errors")[1], "codes")))

_cancel(body) ==
    IF ~body.valid_json THEN CancelFailed(JSONDecodeError)
    ELSE IF ~Has(body, "errors") \/ Get(body, "errors") = <<>> THEN CancelParsed({})
    ELSE IF ~Has(Get(body, "errors")[1], "codes") THEN CancelFailed(KeyError("codes"))
    ELSE CancelParsed(ToSet(Get(Get(body, "errors")[1], "codes")))

\* ------------------------------------------------------ register_transaction
\* Posuto().get(postal_code): the locale database is keyed by postal code.
PosutoKnows(postal_code) == postal_code = "1020083"

\* Mutant of RegisterPrecondition: the shipping party is not checked.
RegisterPreconditionBillingOnly(pi) ==
    IF pi.billing = None
    THEN PaymentError("Billing address is required for transaction in NP Atobarai.")
    ELSE IF pi.shipping = None
    THEN [type |-> "AttributeError", message |-> "'NoneType' object has no attribute 'first_name'"]
    ELSE IF ~PosutoKnows(pi.billing[1].postal_code) \/ ~PosutoKnows(pi.shipping[1].postal_code)
    THEN KeyError("postal_code")
    ELSE NoExc

\* Lines 82-92 and the address lookups of the payload: what stops the call
\* before the request, NoExc when nothing does.
RegisterPrecondition(pi) ==
    IF pi.billing = None
    THEN PaymentError("Billing address is required for transaction in NP Atobarai.")
    ELSE IF pi.shipping = None
    THEN PaymentError("Shipping address is required for transaction in NP Atobarai.")
    ELSE IF ~PosutoKnows(pi.billing[1].postal_code) \/ ~PosutoKnows(pi.shipping[1].postal_code)
    THEN KeyError("postal_code")
    ELSE NoExc

\* utils.price_to_minor_unit: the amount in the currency's minor unit.  The
\* result is counted in hundredths like its argument.
CurrencyPrecision(currency) == IF currency = "JPY" THEN 0 ELSE 2
price_to_minor_unit(value, currency) ==
    IF CurrencyPrecision(currency) = 0 THEN value ELSE value * 100

\* int(...) of a number counted in hundredths
int(hundredths) == hundredths \div 100

\* str.replace(old, new): every occurrence of old, left to right, not
\* overlapping.
RECURSIVE replace(_, _, _)
replace(str, old, new) ==
    IF Len(str) < Len(old) THEN str
    ELSE IF SubSeq(str, 1, Len(old)) = old
    THEN new \o replace(SubSeq(str, Len(old) + 1, Len(str)), old, new)
    ELSE <<Head(str)>> \o replace(Tail(str), old, new)

\* Line 110 and line 118: phone.replace("+81", "0")
Tel(phone) == replace(phone, <<"+", "8", "1">>, <<"0">>)

\* Mutant of Goods: every record is priced with the payment's amount.
GoodsPricedWithAmount(pi) ==
    [i \in 1..Len(pi.lines) |->
        [quantity |-> pi.lines[i].quantity,
         goods_name |-> pi.lines[i].description,
         goods_price |-> int(price_to_minor_unit(pi.amount, pi.currency))]]

\* Lines 120-131: the goods of the payload.
Goods(pi) ==
    [i \in 1..Len(pi.lines) |->
        [quantity |-> pi.lines[i].quantity,
         goods_name |-> pi.lines[i].description,
         goods_price |-> int(price_to_minor_unit(pi.lines[i].gross, pi.currency))]]

\* data of register_transaction (lines 94-134).  Of the customer and
\* dest_customer blocks the postal code and the phone are kept.
RegistrationData(pi) ==
    Transactions(
        [EmptyTransaction EXCEPT
            !.shop_transaction_id = Some(pi.payment_id),
            !.billed_amount = Some(int(price_to_minor_unit(pi.amount, pi.currency))),
            !.customer = Some([zip_code |-> pi.billing[1].postal_code,
                               tel |-> Tel(pi.billing[1].phone)]),
            !.dest_customer = Some([zip_code |-> pi.shipping[1].postal_code,
                                    tel |-> Tel(pi.shipping[1].phone)]),
            !.goods = Some(Goods(pi))])

\* Mutant of IsPending: everything but SUCCESS is taken for pending.
IsNotSuccess(status) == status # PaymentStatus.SUCCESS

\* Mutant of IsPending: everything but FAILED is taken for pending.
IsNotFailed(status) == status # PaymentStatus.FAILED

\* status == PaymentStatus.PENDING
IsPending(status) == status = PaymentStatus.PENDING

\* What the code after the registration response does before it next blocks
\* or ends: raise, return a PaymentResult, or go on to _cancel.
StepRaise(exc) ==
    [kind |-> "raise", exc |-> exc, payment_result |-> NoPaymentResult, transaction_id |-> ""]
StepReturn(payment_result) ==
    [kind |-> "return", exc |-> NoExc, payment_result |-> payment_result, transaction_id |-> ""]
StepCancel(transaction_id) ==
    [kind |-> "cancel", exc |-> NoExc, payment_result |-> NoPaymentResult,
     transaction_id |-> transaction_id]

\* Lines 139-142 and 155: the results branch.
ResultsBranch(body) ==
    LET results == Get(body, "results") IN
    IF results = <<>> THEN {StepRaise(IndexError)}
    ELSE IF ~Has(results[1], "authori_result") THEN {StepRaise(KeyError("authori_result"))}
    ELSE IF ~Has(results[1], "np_transaction_id") THEN {StepRaise(KeyError("np_transaction_id"))}
    ELSE IF IsPending(Get(results[1], "authori_result"))
    THEN {StepCancel(Get(results[1], "np_transaction_id"))}
    ELSE {StepReturn(PaymentResult(Get(results[1], "authori_result"),
                                   Some(Get(results[1], "np_transaction_id")), <<>>))}

\* Mutant of ErrorsBranch: a body without errors key yields no message.
ErrorsBranchNoMessage(body) ==
    IF Has(body, "errors")
    THEN IF Get(body, "errors") = <<>> THEN {StepRaise(IndexError)}
         ELSE IF ~Has(Get(body, "errors")[1], "codes") THEN {StepRaise(KeyError("codes"))}
         ELSE {StepReturn(PaymentResult(PaymentStatus.FAILED, None, error_messages)) :
                 error_messages \in get_error_messages_from_codes(
                     ToSet(Get(Get(body, "errors")[1], "codes")),
                     TransactionRegistrationResultError)}
    ELSE {StepReturn(PaymentResult(PaymentStatus.FAILED, None, <<>>))}

\* Mutant of ErrorsBranch: the codes go through the cancellation-error table.
ErrorsBranchCancellationTable(body) ==
    IF Has(body, "errors")
    THEN IF Get(body, "errors") = <<>> THEN {StepRaise(IndexError)}
         ELSE IF ~Has(Get(body, "errors")[1], "codes") THEN {StepRaise(KeyError("codes"))}
         ELSE {StepReturn(PaymentResult(PaymentStatus.FAILED, None, error_messages)) :
                 error_messages \in get_error_messages_from_codes(
                     ToSet(Get(Get(body, "errors")[1], "codes")),
                     TransactionCancellationResultError)}
    ELSE {StepReturn(PaymentResult(PaymentStatus.FAILED, None, <<UNKNOWN_ERROR>>))}

\* Lines 157-165: no results key.
ErrorsBranch(body) ==
    IF Has(body, "errors")
    THEN IF Get(body, "errors") = <<>> THEN {StepRaise(IndexError)}
         ELSE IF ~Has(Get(body, "errors")[1], "codes") THEN {StepRaise(KeyError("codes"))}
         ELSE {StepReturn(PaymentResult(PaymentStatus.FAILED, None, error_messages)) :
                 error_messages \in get_error_messages_from_codes(
                     ToSet(Get(Get(body, "errors")[1], "codes")),
                     TransactionRegistrationResultError)}
    ELSE {StepReturn(PaymentResult(PaymentStatus.FAILED, None, <<UNKNOWN_ERROR>>))}

\* Lines 137-165 up to the call of _cancel.
RegistrationSteps(body) ==
    IF ~body.valid_json THEN {StepRaise(JSONDecodeError)}
    ELSE IF Has(body, "results") THEN ResultsBranch(body)
    ELSE ErrorsBranch(body)

\* The locals status and transaction_id of a call that went on to _cancel.
Status(body) == Get(Get(body, "results")[1], "authori_result")
TransactionId(body) == Get(Get(body, "results")[1], "np_transaction_id")

\* Lines 147-152: the log events of the pending branch.
CancelLog(transaction_id, cancel_error_codes) ==
    IF cancel_error_codes # {}
    THEN <<[transaction_id |-> transaction_id, codes |-> cancel_error_codes]>>
    ELSE <<>>

\* Mutant of PendingSteps: the caller is given the cancellation's error codes.
PendingStepsFromCancel(body, cancel_error_codes) ==
    IF ~Has(body, "authori_hold") THEN {StepRaise(KeyError("authori_hold"))}
    ELSE {StepReturn(PaymentResult(Status(body), Some(TransactionId(body)), errors)) :
            errors \in get_error_messages_from_codes(
                cancel_error_codes, TransactionCancellationResultError)}

\* Lines 153-155: what the pending branch ends with once _cancel has returned.
PendingSteps(body, cancel_error_codes) ==
    IF ~Has(body, "authori_hold") THEN {StepRaise(KeyError("authori_hold"))}
    ELSE {StepReturn(PaymentResult(Status(body), Some(TransactionId(body)), errors)) :
            errors \in get_reason_messages_from_codes(ToSet(Get(body, "authori_hold")))}

\* -------------------------------------------------------- cancel_transaction
\* Mutant of NotVoidable: "psp_reference is None" for "not psp_reference".
NotVoidableNoneOnly(psp) == psp = None

\* not psp_reference
NotVoidable(psp) == psp = None \/ psp = Some("")

\* Lines 187-201: the result built from _cancel's error codes.
CancelResults(psp, error_codes) ==
    IF error_codes # {}
    THEN {PaymentResult(PaymentStatus.FAILED, psp, error_messages) :
            error_messages \in get_error_messages_from_codes(
                error_codes, TransactionCancellationResultError)}
    ELSE {PaymentResult(PaymentStatus.SUCCESS, psp, <<>>)}

\* -------------------------------------------------------------- health_check
\* response.status_code not in [401, 403]
\* Mutant of Healthy: only 200 counts as healthy.
HealthyOnly200(code) == code = 200

Healthy(code) == code \notin {401, 403}

\* ------------------------------------------------------- inputs of the calls
\* The arguments and provider answers a call of process p may be given.
\* "protocol": the full range of provider answers, one payment.
\* "concurrent": each process works on a payment and a provider id of its
\* own, with a selection of answers.  "payload": the payments range over
\* line items and phone numbers, with the same selection of answers.
IdOf(p) == IF p = 1 THEN "T1" ELSE "T2"

Answer(results, authori_hold, errors) ==
    [valid_json |-> TRUE, results |-> results, authori_hold |-> authori_hold, errors |-> errors]

SelectedRegistrationBodies(p) ==
    {Answer(Some(<<[authori_result |-> Some(a), np_transaction_id |-> Some(IdOf(p))]>>), h, None) :
        a \in {"SUCCESS", "PENDING"}, h \in {None, Some(<<"c1">>)}}
    \cup {Answer(None, None, Some(<<[codes |-> Some(<<"c1", "c2">>)]>>)),
          Answer(Some(<<>>), None, None),
          EmptyBody}

SelectedCancellationBodies ==
    {EmptyBody, Answer(None, None, Some(<<[codes |-> Some(<<"c1">>)]>>)), NotJson}

PaymentDatasOf(p) ==
    CASE scenario = "protocol" -> PaymentDatas
      [] scenario = "payload" -> PayloadPaymentDatas
      [] OTHER ->
            {[Order(p, JapanesePhone, JapanesePhone, "JPY", 100, OneLine) EXCEPT !.shipping = d] :
                d \in {None, Some(KnownAddress(JapanesePhone))}}

PspReferencesOf(p) ==
    IF scenario = "protocol" THEN PspReferences ELSE {None, Some(IdOf(p))}

RegistrationBodiesOf(p) ==
    IF scenario = "protocol" THEN RegistrationBodies ELSE SelectedRegistrationBodies(p)

CancellationBodiesOf(p) ==
    IF scenario = "protocol" THEN CancellationBodies ELSE SelectedCancellationBodies

\* --------------------------------------------------------------------- Init
Idle(p) ==
    /\ pc[p] = "idle"
    /\ p \in active

\* The state before any call, for a scenario and the processes that call.
Start(sc, callers) ==
    /\ scenario = sc
    /\ active = callers
    /\ pc = [p \in Procs |-> "idle"]
    /\ op = [p \in Procs |-> "none"]
    /\ config = [p \in Procs |-> [test_mode |-> FALSE]]
    /\ payment_information = [p \in Procs |-> NoPayment]
    /\ psp_reference = [p \in Procs |-> None]
    /\ response_data = [p \in Procs |-> None]
    /\ cancel_response = [p \in Procs |-> None]
    /\ status_code = [p \in Procs |-> None]
    /\ requests = [p \in Procs |-> <<>>]
    /\ log = [p \in Procs |-> <<>>]
    /\ ret = [p \in Procs |-> NoReturn]

\* One caller, the full range of provider answers.
Init == Start("protocol", {1})

\* ------------------------------------------------------------------ actions
\* register_transaction is called: lines 80-136, up to requests.request.
register_transaction(p) ==
    /\ Idle(p)
    /\ \E cfg \in ApiConfigs, pi \in PaymentDatasOf(p) :
        /\ op' = [op EXCEPT ![p] = "register_transaction"]
        /\ config' = [config EXCEPT ![p] = cfg]
        /\ payment_information' = [payment_information EXCEPT ![p] = pi]
        /\ IF RegisterPrecondition(pi) # NoExc
           THEN /\ ret' = [ret EXCEPT ![p] = Raised(RegisterPrecondition(pi))]
                /\ pc' = [pc EXCEPT ![p] = "done"]
                /\ UNCHANGED requests
           ELSE /\ requests' = [requests EXCEPT ![p] =
                      <<np_request(cfg, "post", "/transactions", RegistrationData(pi))>>]
                /\ pc' = [pc EXCEPT ![p] = "registering"]
                /\ UNCHANGED ret
    /\ UNCHANGED <<scenario, active, status_code, psp_reference, response_data, cancel_response, log>>

\* Mutant of RegistrationResponse: the request of _cancel is built from a
\* module-level config, the one the first caller left there.
RegistrationResponseSharedConfig(p) ==
    /\ pc[p] = "registering"
    /\ \E body \in RegistrationBodiesOf(p) : \E step \in RegistrationSteps(body) :
        /\ response_data' = [response_data EXCEPT ![p] = Some(body)]
        /\ CASE step.kind = "raise" ->
                  /\ ret' = [ret EXCEPT ![p] = Raised(step.exc)]
                  /\ pc' = [pc EXCEPT ![p] = "done"]
                  /\ UNCHANGED requests
             [] step.kind = "return" ->
                  /\ ret' = [ret EXCEPT ![p] = Returned(step.payment_result)]
                  /\ pc' = [pc EXCEPT ![p] = "done"]
                  /\ UNCHANGED requests
             [] step.kind = "cancel" ->
                  /\ requests' = [requests EXCEPT ![p] = Append(@,
                        np_request(config[1], "post", "/transactions/cancel",
                                   CancelData(step.transaction_id)))]
                  /\ pc' = [pc EXCEPT ![p] = "auto_cancelling"]
                  /\ UNCHANGED ret
    /\ UNCHANGED <<scenario, active, status_code, op, config, payment_information, psp_reference,
                   cancel_response, log>>

\* The provider answers the registration request: lines 137-165, up to the
\* request of _cancel when the outcome is pending.
RegistrationResponse(p) ==
    /\ pc[p] = "registering"
    /\ \E body \in RegistrationBodiesOf(p) : \E step \in RegistrationSteps(body) :
        /\ response_data' = [response_data EXCEPT ![p] = Some(body)]
        /\ CASE step.kind = "raise" ->
                  /\ ret' = [ret EXCEPT ![p] = Raised(step.exc)]
                  /\ pc' = [pc EXCEPT ![p] = "done"]
                  /\ UNCHANGED requests
             [] step.kind = "return" ->
                  /\ ret' = [ret EXCEPT ![p] = Returned(step.payment_result)]
                  /\ pc' = [pc EXCEPT ![p] = "done"]
                  /\ UNCHANGED requests
             [] step.kind = "cancel" ->
                  /\ requests' = [requests EXCEPT ![p] = Append(@,
                        np_request(config[p], "post", "/transactions/cancel",
                                   CancelData(step.transaction_id)))]
                  /\ pc' = [pc EXCEPT ![p] = "auto_cancelling"]
                  /\ UNCHANGED ret
    /\ UNCHANGED <<scenario, active, status_code, op, config, payment_information, psp_reference, cancel_response, log>>

\* The provider answers the cancellation request of a pending registration:
\* line 171 to the end of _cancel, then lines 147-155.
AutoCancelResponse(p) ==
    /\ pc[p] = "auto_cancelling"
    /\ \E body \in CancellationBodiesOf(p) :
        LET cancelled == _cancel(body) IN
        /\ cancel_response' = [cancel_response EXCEPT ![p] = Some(body)]
        /\ pc' = [pc EXCEPT ![p] = "done"]
        /\ IF cancelled.exc # NoExc
           THEN /\ ret' = [ret EXCEPT ![p] = Raised(cancelled.exc)]
                /\ UNCHANGED log
           ELSE /\ log' = [log EXCEPT ![p] =
                      @ \o CancelLog(TransactionId(response_data[p][1]), cancelled.codes)]
                /\ \E step \in PendingSteps(response_data[p][1], cancelled.codes) :
                      ret' = [ret EXCEPT ![p] =
                          IF step.kind = "raise" THEN Raised(step.exc)
                          ELSE Returned(step.payment_result)]
    /\ UNCHANGED <<scenario, active, status_code, op, config, payment_information, psp_reference, response_data, requests>>

\* cancel_transaction is called: lines 180-185 and the request of _cancel.
cancel_transaction(p) ==
    /\ Idle(p)
    /\ \E cfg \in ApiConfigs, pi \in PaymentDatasOf(p), psp \in PspReferencesOf(p) :
        /\ op' = [op EXCEPT ![p] = "cancel_transaction"]
        /\ config' = [config EXCEPT ![p] = cfg]
        /\ payment_information' = [payment_information EXCEPT ![p] = pi]
        /\ psp_reference' = [psp_reference EXCEPT ![p] = psp]
        /\ IF NotVoidable(psp)
           THEN /\ ret' = [ret EXCEPT ![p] = Raised(PaymentError("Payment cannot be voided."))]
                /\ pc' = [pc EXCEPT ![p] = "done"]
                /\ UNCHANGED requests
           ELSE /\ requests' = [requests EXCEPT ![p] =
                      <<np_request(cfg, "post", "/transactions/cancel", CancelData(psp[1]))>>]
                /\ pc' = [pc EXCEPT ![p] = "cancelling"]
                /\ UNCHANGED ret
    /\ UNCHANGED <<scenario, active, status_code, response_data, cancel_response, log>>

\* The provider answers the cancellation request of cancel_transaction:
\* line 171 to the end of _cancel, then lines 187-201.
CancelResponse(p) ==
    /\ pc[p] = "cancelling"
    /\ \E body \in CancellationBodiesOf(p) :
        LET cancelled == _cancel(body) IN
        /\ cancel_response' = [cancel_response EXCEPT ![p] = Some(body)]
        /\ pc' = [pc EXCEPT ![p] = "done"]
        /\ IF cancelled.exc # NoExc
           THEN ret' = [ret EXCEPT ![p] = Raised(cancelled.exc)]
           ELSE \E payment_result \in CancelResults(psp_reference[p], cancelled.codes) :
                   ret' = [ret EXCEPT ![p] = Returned(payment_result)]
    /\ UNCHANGED <<scenario, active, status_code, op, config, payment_information, psp_reference, response_data,
                   requests, log>>

\* Mutant of GatewayUnreachable: the PaymentError is caught and reported as
\* a FAILED result.
GatewayUnreachableSwallowed(p) ==
    /\ pc[p] \in {"registering", "auto_cancelling", "cancelling"}
    /\ ret' = [ret EXCEPT ![p] = Returned(PaymentResult(PaymentStatus.FAILED, None, <<UNKNOWN_ERROR>>))]
    /\ pc' = [pc EXCEPT ![p] = "done"]
    /\ UNCHANGED <<scenario, active, status_code, op, config, payment_information, psp_reference, response_data,
                   cancel_response, requests, log>>

\* requests.request raises RequestException inside np_request (lines 46-47)
\* during register_transaction, its _cancel, or cancel_transaction: nothing
\* on the way up catches the PaymentError.
GatewayUnreachable(p) ==
    /\ pc[p] \in {"registering", "auto_cancelling", "cancelling"}
    /\ ret' = [ret EXCEPT ![p] = Raised(PaymentError("Cannot connect to NP Atobarai."))]
    /\ pc' = [pc EXCEPT ![p] = "done"]
    /\ UNCHANGED <<scenario, active, status_code, op, config, payment_information, psp_reference, response_data,
                   cancel_response, requests, log>>

\* health_check is called: line 52, up to requests.request.
health_check(p) ==
    /\ Idle(p)
    /\ \E cfg \in ApiConfigs :
        /\ op' = [op EXCEPT ![p] = "health_check"]
        /\ config' = [config EXCEPT ![p] = cfg]
        /\ requests' = [requests EXCEPT ![p] =
              <<np_request(cfg, "post", "/authorizations/find", EmptyJson)>>]
        /\ pc' = [pc EXCEPT ![p] = "probing"]
    /\ UNCHANGED <<scenario, active, status_code, payment_information, psp_reference, response_data, cancel_response,
                   log, ret>>

\* The provider answers the probe: line 53.
HealthResponse(p) ==
    /\ pc[p] = "probing"
    /\ \E code \in StatusCodes :
        /\ status_code' = [status_code EXCEPT ![p] = Some(code)]
        /\ ret' = [ret EXCEPT ![p] = ReturnedBool(Healthy(code))]
    /\ pc' = [pc EXCEPT ![p] = "done"]
    /\ UNCHANGED <<scenario, active, op, config, payment_information, psp_reference, response_data,
                   cancel_response, requests, log>>

\* np_request raises during the probe: lines 54-55.
HealthUnreachable(p) ==
    /\ pc[p] = "probing"
    /\ ret' = [ret EXCEPT ![p] = ReturnedBool(FALSE)]
    /\ pc' = [pc EXCEPT ![p] = "done"]
    /\ UNCHANGED <<scenario, active, status_code, op, config, payment_information, psp_reference, response_data,
                   cancel_response, requests, log>>

\* The caller has its answer; the process is free for its next call.  Nothing
\* of a call outlives it: the module keeps no state between calls.
Finish(p) ==
    /\ pc[p] = "done"
    /\ pc' = [pc EXCEPT ![p] = "idle"]
    /\ op' = [op EXCEPT ![p] = "none"]
    /\ config' = [config EXCEPT ![p] = [test_mode |-> FALSE]]
    /\ payment_information' = [payment_information EXCEPT ![p] = NoPayment]
    /\ psp_reference' = [psp_reference EXCEPT ![p] = None]
    /\ response_data' = [response_data EXCEPT ![p] = None]
    /\ cancel_response' = [cancel_response EXCEPT ![p] = None]
    /\ status_code' = [status_code EXCEPT ![p] = None]
    /\ requests' = [requests EXCEPT ![p] = <<>>]
    /\ log' = [log EXCEPT ![p] = <<>>]
    /\ ret' = [ret EXCEPT ![p] = NoReturn]
    /\ UNCHANGED <<scenario, active>>

Next ==
    \E p \in Procs :
        \/ register_transaction(p)
        \/ RegistrationResponse(p)
        \/ AutoCancelResponse(p)
        \/ cancel_transaction(p)
        \/ CancelResponse(p)
        \/ GatewayUnreachable(p)
        \/ health_check(p)
        \/ HealthResponse(p)
        \/ HealthUnreachable(p)
        \/ Finish(p)

Spec == Init /\ [][Next]_vars

\* Two callers whose calls interleave, each on its own payment and provider id.
InitConcurrent == Start("concurrent", Procs)

SpecConcurrent == InitConcurrent /\ [][Next]_vars

\* One caller, payments that range over line items and phone numbers.
InitPayload == Start("payload", {1})

SpecPayload == InitPayload /\ [][Next]_vars

\* ------------------------------------------------------- reading the state
Registering(p) == op[p] = "register_transaction"
Cancelling(p) == op[p] = "cancel_transaction"
Done(p) == pc[p] = "done"
ReturnedResult(p) == ret[p].kind = "returned"

\* The registration response has arrived and its first result carries this
\* authori_result and some np_transaction_id.
Outcome(p, authori_result) ==
    /\ Registering(p)
    /\ response_data[p] # None
    /\ response_data[p][1].valid_json
    /\ response_data[p][1].results # None
    /\ response_data[p][1].results[1] # <<>>
    /\ response_data[p][1].results[1][1].authori_result = Some(authori_result)
    /\ response_data[p][1].results[1][1].np_transaction_id # None

\* np_transaction_id of the first result
OutcomeId(p) == response_data[p][1].results[1][1].np_transaction_id[1]

IsCancellation(request) == request.url.path = "/transactions/cancel"
IsRegistration(request) == request.url.path = "/transactions"
CancellationsOf(p) == {i \in 1..Len(requests[p]) : IsCancellation(requests[p][i])}
Names(request, transaction_id) ==
    /\ request.json.transactions # None
    /\ Len(request.json.transactions[1]) = 1
    /\ request.json.transactions[1][1].np_transaction_id = Some(transaction_id)

\* The transport failed: np_request raised.
Unreachable(p) == ret[p] = Raised(PaymentError("Cannot connect to NP Atobarai."))

\* The codes a cancellation answer carries: those of the first element of a
\* non-empty errors collection.
CarriedCodes(answer) ==
    IF /\ answer # None
       /\ answer[1].valid_json
       /\ answer[1].errors # None
       /\ answer[1].errors[1] # <<>>
       /\ answer[1].errors[1][1].codes # None
    THEN {answer[1].errors[1][1].codes[1][i] : i \in 1..Len(answer[1].errors[1][1].codes[1])}
    ELSE {}

\* `messages` lists, once each, the codes translated through `table`.
Translates(messages, codes, table) ==
    /\ Len(messages) = Cardinality(codes)
    /\ {messages[i] : i \in 1..Len(messages)} = {[table |-> table, code |-> c] : c \in codes}

\* ------------------------------------------------------------------ claims
\* C1: whenever register_transaction returns a PaymentResult, its status is
\* SUCCESS or FAILED; PENDING (or any other authori_result) never reaches
\* the caller.
C1_StatusSuccessOrFailed ==
    \A p \in Procs :
        (Registering(p) /\ ReturnedResult(p)) =>
            ret[p].payment_result.status \in {PaymentStatus.SUCCESS, PaymentStatus.FAILED}

\* C2: on a PENDING registration outcome with id T, register_transaction
\* issues exactly one cancellation request, it names T, and it is issued
\* once the registration response has arrived (never while the registration
\* request is outstanding) and before the call ends.
C2_OneCancellationOfSameId ==
    \A p \in Procs :
        /\ (Registering(p) /\ pc[p] = "registering") => CancellationsOf(p) = {}
        /\ Outcome(p, "PENDING") =>
              /\ pc[p] \in {"auto_cancelling", "done"}
              /\ Len(requests[p]) = 2
              /\ IsRegistration(requests[p][1])
              /\ CancellationsOf(p) = {2}
              /\ requests[p][2].method = "post"
              /\ Names(requests[p][2], OutcomeId(p))

C2_Witness ==
    \E p \in Procs :
        /\ Outcome(p, "PENDING") /\ OutcomeId(p) = "T2"
        /\ Done(p) /\ ReturnedResult(p)

\* C3: a failed auto-cancel is never raised to the caller of
\* register_transaction, which still gets a FAILED result.  Stated for the
\* auto-cancel whose request fails in transport, after a PENDING response
\* that is otherwise complete (it has its authori_hold).
AutoCancelUnreachable(p) ==
    /\ Outcome(p, "PENDING")
    /\ response_data[p][1].authori_hold # None
    /\ Done(p)
    /\ cancel_response[p] = None

C3_AutoCancelFailureNotRaised ==
    \A p \in Procs :
        AutoCancelUnreachable(p) =>
            /\ ReturnedResult(p)
            /\ ret[p].payment_result.status = PaymentStatus.FAILED

\* C4: on a PENDING outcome with id T the returned result carries
\* psp_reference T and exactly the authori_hold codes translated through the
\* pending-reason table, whatever the auto-cancel answered; no cancellation
\* message is among them; and a log event is emitted if and only if the
\* cancellation returned a non-empty set of error codes.
C4_PendingResultFromHoldCodes ==
    \A p \in Procs :
        Outcome(p, "PENDING") =>
            /\ (Done(p) /\ ReturnedResult(p)) =>
                  /\ ret[p].payment_result.psp_reference = Some(OutcomeId(p))
                  /\ response_data[p][1].authori_hold # None
                  /\ Translates(ret[p].payment_result.errors,
                                ToSet(response_data[p][1].authori_hold[1]), "PendingReason")
                  /\ \A i \in 1..Len(ret[p].payment_result.errors) :
                        ret[p].payment_result.errors[i].table # TransactionCancellationResultError
            /\ log[p] # <<>> <=> CarriedCodes(cancel_response[p]) # {}
            /\ log[p] # <<>> =>
                  log[p] = <<[transaction_id |-> OutcomeId(p),
                              codes |-> CarriedCodes(cancel_response[p])]>>

C4_Witness ==
    \E p \in Procs :
        /\ Outcome(p, "PENDING")
        /\ Done(p) /\ ReturnedResult(p)
        /\ response_data[p][1].authori_hold = Some(<<"c1">>)
        /\ CarriedCodes(cancel_response[p]) = {"c1", "c2"}
        /\ log[p] # <<>>

\* C5: on a SUCCESS outcome with id T, register_transaction returns status
\* SUCCESS, psp_reference T and no errors, and issues no cancellation request.
C5_SuccessReturnsImmediately ==
    \A p \in Procs :
        Outcome(p, "SUCCESS") =>
            /\ Done(p)
            /\ ret[p] = Returned(PaymentResult(PaymentStatus.SUCCESS, Some(OutcomeId(p)), <<>>))
            /\ CancellationsOf(p) = {}
            /\ Len(requests[p]) = 1

C5_Witness ==
    \E p \in Procs :
        /\ Outcome(p, "SUCCESS") /\ OutcomeId(p) = "T1"
        /\ response_data[p][1].authori_hold # None
        /\ Done(p) /\ ReturnedResult(p)

\* C6: whatever the shape of the registration response body, the call does
\* not raise because of it: it returns a PaymentResult with status FAILED.
\* The shapes: an empty results collection, a first result without
\* authori_result or np_transaction_id, a PENDING result without authori_hold,
\* an empty errors collection, a first errors element without codes.
UnexpectedShape(body) ==
    /\ body.valid_json
    /\ IF body.results # None
       THEN \/ body.results[1] = <<>>
            \/ body.results[1][1].authori_result = None
            \/ body.results[1][1].np_transaction_id = None
            \/ /\ body.results[1][1].authori_result = Some("PENDING")
               /\ body.authori_hold = None
       ELSE /\ body.errors # None
            /\ \/ body.errors[1] = <<>>
               \/ body.errors[1][1].codes = None

C6_UnexpectedShapeDegradesToFailed ==
    \A p \in Procs :
        (/\ Registering(p)
         /\ Done(p)
         /\ response_data[p] # None
         /\ UnexpectedShape(response_data[p][1])
         /\ ~Unreachable(p)) =>
            /\ ReturnedResult(p)
            /\ ret[p].payment_result.status = PaymentStatus.FAILED

\* C7: a register_transaction call whose payment data lacks the billing or
\* the shipping party fails with the missing-address PaymentError, and no
\* request is issued at any point of the call.
MissingAddress ==
    {PaymentError("Billing address is required for transaction in NP Atobarai."),
     PaymentError("Shipping address is required for transaction in NP Atobarai.")}

C7_MissingAddressBeforeAnyRequest ==
    \A p \in Procs :
        (/\ Registering(p)
         /\ payment_information[p].billing = None \/ payment_information[p].shipping = None) =>
            /\ Done(p)
            /\ ret[p].kind = "raised"
            /\ ret[p].exc \in MissingAddress
            /\ requests[p] = <<>>

C7_Witness ==
    \E p \in Procs :
        /\ Registering(p)
        /\ payment_information[p].billing # None
        /\ payment_information[p].shipping = None
        /\ Done(p)
        /\ ret[p].kind = "raised"

\* C8: when no provider transaction id is recorded for the payment (None or
\* the empty string), cancel_transaction fails with the not-voidable
\* PaymentError and issues no request.
C8_NotVoidableBeforeAnyRequest ==
    \A p \in Procs :
        (Cancelling(p) /\ psp_reference[p] \in {None, Some("")}) =>
            /\ Done(p)
            /\ ret[p] = Raised(PaymentError("Payment cannot be voided."))
            /\ requests[p] = <<>>

C8_Witness ==
    \E p \in Procs :
        /\ Cancelling(p)
        /\ psp_reference[p] = Some("")
        /\ Done(p)
        /\ ret[p].kind = "raised"

\* C9: cancel_transaction with a recorded provider id P issues one
\* cancellation request, naming P.  When the answer carries a non-empty set
\* of error codes the result is FAILED with psp_reference P and the codes
\* translated through the cancellation-error table; when it has no errors
\* key, an empty errors collection or an empty codes list, the result is
\* SUCCESS with psp_reference P and no messages.
NoErrorCodes(answer) ==
    /\ answer.valid_json
    /\ \/ answer.errors = None
       \/ answer.errors[1] = <<>>
       \/ answer.errors[1][1].codes = Some(<<>>)

C9_CancelResultFollowsErrorCodes ==
    \A p \in Procs :
        (Cancelling(p) /\ psp_reference[p] \notin {None, Some("")}) =>
            /\ Len(requests[p]) = 1
            /\ IsCancellation(requests[p][1])
            /\ Names(requests[p][1], psp_reference[p][1])
            /\ (Done(p) /\ CarriedCodes(cancel_response[p]) # {}) =>
                  /\ ReturnedResult(p)
                  /\ ret[p].payment_result.status = PaymentStatus.FAILED
                  /\ ret[p].payment_result.psp_reference = psp_reference[p]
                  /\ Translates(ret[p].payment_result.errors,
                                CarriedCodes(cancel_response[p]),
                                TransactionCancellationResultError)
            /\ (Done(p) /\ cancel_response[p] # None /\ NoErrorCodes(cancel_response[p][1])) =>
                  ret[p] = Returned(PaymentResult(PaymentStatus.SUCCESS, psp_reference[p], <<>>))

C9_Witness ==
    \E p \in Procs :
        /\ Cancelling(p)
        /\ psp_reference[p] = Some("T2")
        /\ Done(p)
        /\ ReturnedResult(p)
        /\ CarriedCodes(cancel_response[p]) = {"c1", "c2"}

\* The success cases of C9 happen too: an empty errors collection.
C9_WitnessSuccess ==
    \E p \in Procs :
        /\ Cancelling(p)
        /\ psp_reference[p] = Some("T1")
        /\ Done(p)
        /\ cancel_response[p] # None
        /\ cancel_response[p][1].valid_json
        /\ cancel_response[p][1].errors = Some(<<>>)

\* C10: when the registration response has no results key and an errors
\* collection (whose first element has its codes), register_transaction
\* returns FAILED with psp_reference None and exactly the codes of the first
\* errors element translated through the registration-error table, and
\* issues no cancellation request.
ErrorEnvelope(p) ==
    /\ Registering(p)
    /\ response_data[p] # None
    /\ response_data[p][1].valid_json
    /\ response_data[p][1].results = None
    /\ response_data[p][1].errors # None
    /\ response_data[p][1].errors[1] # <<>>
    /\ response_data[p][1].errors[1][1].codes # None

C10_ErrorEnvelopeReturnsFailed ==
    \A p \in Procs :
        ErrorEnvelope(p) =>
            /\ Done(p)
            /\ ReturnedResult(p)
            /\ ret[p].payment_result.status = PaymentStatus.FAILED
            /\ ret[p].payment_result.psp_reference = None
            /\ Translates(ret[p].payment_result.errors, CarriedCodes(response_data[p]),
                          TransactionRegistrationResultError)
            /\ CancellationsOf(p) = {}
            /\ Len(requests[p]) = 1

C10_Witness ==
    \E p \in Procs :
        /\ ErrorEnvelope(p)
        /\ Done(p)
        /\ CarriedCodes(response_data[p]) = {"c1", "c2"}
        /\ response_data[p][1].authori_hold # None
        /\ Len(ret[p].payment_result.errors) = 2

\* C11: when the registration response body has neither a results key nor
\* an errors key (an empty JSON object, say), register_transaction returns
\* FAILED with psp_reference None and exactly one message, the generic
\* unknown-error message.
UnrecognizedBody(p) ==
    /\ Registering(p)
    /\ response_data[p] # None
    /\ response_data[p][1].valid_json
    /\ response_data[p][1].results = None
    /\ response_data[p][1].errors = None

C11_UnrecognizedBodyReturnsUnknownError ==
    \A p \in Procs :
        UnrecognizedBody(p) =>
            /\ Done(p)
            /\ ret[p] = Returned(PaymentResult(PaymentStatus.FAILED, None, <<UNKNOWN_ERROR>>))

C11_Witness ==
    \E p \in Procs :
        /\ UnrecognizedBody(p)
        /\ response_data[p][1] = EmptyBody
        /\ Done(p)

\* C12: the requests of one public operation are bounded.  health_check and
\* cancel_transaction issue at most one; register_transaction issues at most
\* one unless the registration outcome is PENDING, and then exactly two, the
\* registration followed by one cancellation; for any other outcome it
\* issues no cancellation.
C12_RequestsBounded ==
    \A p \in Procs :
        /\ op[p] \in {"health_check", "cancel_transaction"} => Len(requests[p]) <= 1
        /\ (Registering(p) /\ Outcome(p, "PENDING")) =>
              /\ Len(requests[p]) = 2
              /\ IsRegistration(requests[p][1])
              /\ IsCancellation(requests[p][2])
        /\ (Registering(p) /\ ~Outcome(p, "PENDING")) =>
              /\ Len(requests[p]) <= 1
              /\ CancellationsOf(p) = {}

C12_Witness ==
    \E p \in Procs :
        /\ Outcome(p, "PENDING")
        /\ Done(p)
        /\ Len(requests[p]) = 2
        /\ CarriedCodes(cancel_response[p]) = {"c2"}

\* C13: when the registration request of register_transaction, or the
\* cancellation request of cancel_transaction, fails in transport, the call
\* raises the cannot-connect PaymentError, returns no PaymentResult, and the
\* failed request stays its only request (no retry).
TransportFailed(p) ==
    /\ Done(p)
    /\ requests[p] # <<>>
    /\ \/ Registering(p) /\ response_data[p] = None
       \/ Cancelling(p) /\ cancel_response[p] = None

C13_TransportFailureRaisedOnce ==
    \A p \in Procs :
        TransportFailed(p) =>
            /\ ret[p].kind = "raised"
            /\ ret[p].exc = PaymentError("Cannot connect to NP Atobarai.")
            /\ ret[p].payment_result = NoPaymentResult
            /\ Len(requests[p]) = 1

C13_Witness ==
    \E p \in Procs :
        /\ TransportFailed(p)
        /\ Cancelling(p)
        /\ psp_reference[p] = Some("T1")
        /\ ret[p].kind = "raised"

\* C13 for register_transaction as well.
C13_WitnessRegistration ==
    \E p \in Procs :
        /\ TransportFailed(p)
        /\ Registering(p)
        /\ ret[p].kind = "raised"

\* C15: every request of one public operation goes to the base URL its
\* config.test_mode selects, the test host when true and the production host
\* when false; the registration and the auto-cancel of one call never go one
\* to each.
BaseUrlOf(p) == IF config[p].test_mode THEN NP_TEST_URL ELSE NP_URL

C15_OneEnvironmentPerCall ==
    /\ NP_TEST_URL # NP_URL
    /\ \A p \in Procs :
          \A i \in 1..Len(requests[p]) : requests[p][i].url.base = BaseUrlOf(p)

C15_Witness ==
    \E p \in Procs :
        /\ Registering(p)
        /\ config[p].test_mode
        /\ Len(requests[p]) = 2
        /\ requests[p][1].url.base = NP_TEST_URL
        /\ requests[p][2].url.base = NP_TEST_URL
        /\ Done(p)

\* C14: health_check never raises; it returns false when the probe fails in
\* transport, false when the response status is 401 or 403, and true for
\* every other status.
Probing(p) == op[p] = "health_check"

C14_HealthCheckVerdict ==
    \A p \in Procs :
        (Probing(p) /\ Done(p)) =>
            /\ ret[p].kind = "returned"
            /\ ret[p].bool = (status_code[p] \notin {None, Some(401), Some(403)})

C14_Witness ==
    \E p \in Procs :
        /\ Probing(p)
        /\ Done(p)
        /\ status_code[p] = Some(500)
        /\ ret[p].bool

\* C14 in its other cases: a transport failure, an authentication rejection.
C14_WitnessUnreachable ==
    \E p \in Procs : Probing(p) /\ Done(p) /\ status_code[p] = None /\ ~ret[p].bool

C14_WitnessRejected ==
    \E p \in Procs : Probing(p) /\ Done(p) /\ status_code[p] = Some(403) /\ ~ret[p].bool

\* C16: calls that run concurrently for different transactions are
\* independent.  Whatever the interleaving, what a call has issued, logged
\* and given its caller is what the same call yields when it runs alone with
\* the same arguments and the same provider answers: a function of the
\* call's own arguments and answers, in which no other call appears.
RegistrationRequestOf(p) ==
    np_request(config[p], "post", "/transactions", RegistrationData(payment_information[p]))

\* The step a lone register_transaction takes on its registration response.
AloneStep(p) == CHOOSE step \in RegistrationSteps(response_data[p][1]) : TRUE

AloneGoesOnToCancel(p) ==
    /\ response_data[p] # None
    /\ AloneStep(p).kind = "cancel"

AloneRequests(p) ==
    CASE op[p] = "health_check" ->
            <<np_request(config[p], "post", "/authorizations/find", EmptyJson)>>
      [] op[p] = "cancel_transaction" ->
            IF NotVoidable(psp_reference[p]) THEN <<>>
            ELSE <<np_request(config[p], "post", "/transactions/cancel",
                              CancelData(psp_reference[p][1]))>>
      [] op[p] = "register_transaction" ->
            IF RegisterPrecondition(payment_information[p]) # NoExc THEN <<>>
            ELSE IF AloneGoesOnToCancel(p)
            THEN <<RegistrationRequestOf(p),
                   np_request(config[p], "post", "/transactions/cancel",
                              CancelData(AloneStep(p).transaction_id))>>
            ELSE <<RegistrationRequestOf(p)>>
      [] OTHER -> <<>>

CannotConnect == Raised(PaymentError("Cannot connect to NP Atobarai."))

StepReturns(steps) ==
    {IF step.kind = "raise" THEN Raised(step.exc) ELSE Returned(step.payment_result) :
        step \in steps}

\* What a lone call may give its caller once it has ended.
AloneReturns(p) ==
    CASE op[p] = "health_check" ->
            IF status_code[p] = None THEN {ReturnedBool(FALSE)}
            ELSE {ReturnedBool(Healthy(status_code[p][1]))}
      [] op[p] = "cancel_transaction" ->
            IF NotVoidable(psp_reference[p])
            THEN {Raised(PaymentError("Payment cannot be voided."))}
            ELSE IF cancel_response[p] = None THEN {CannotConnect}
            ELSE IF _cancel(cancel_response[p][1]).exc # NoExc
            THEN {Raised(_cancel(cancel_response[p][1]).exc)}
            ELSE {Returned(r) :
                    r \in CancelResults(psp_reference[p], _cancel(cancel_response[p][1]).codes)}
      [] op[p] = "register_transaction" ->
            IF RegisterPrecondition(payment_information[p]) # NoExc
            THEN {Raised(RegisterPrecondition(payment_information[p]))}
            ELSE IF response_data[p] = None THEN {CannotConnect}
            ELSE IF ~AloneGoesOnToCancel(p)
            THEN StepReturns(RegistrationSteps(response_data[p][1]))
            ELSE IF cancel_response[p] = None THEN {CannotConnect}
            ELSE IF _cancel(cancel_response[p][1]).exc # NoExc
            THEN {Raised(_cancel(cancel_response[p][1]).exc)}
            ELSE StepReturns(PendingSteps(response_data[p][1],
                                          _cancel(cancel_response[p][1]).codes))
      [] OTHER -> {NoReturn}

AloneLog(p) ==
    IF /\ Registering(p)
       /\ AloneGoesOnToCancel(p)
       /\ cancel_response[p] # None
       /\ _cancel(cancel_response[p][1]).exc = NoExc
    THEN CancelLog(AloneStep(p).transaction_id, _cancel(cancel_response[p][1]).codes)
    ELSE <<>>

C16_ConcurrentCallsIndependent ==
    \A p \in Procs :
        /\ requests[p] = AloneRequests(p)
        /\ log[p] = AloneLog(p)
        /\ IF Done(p) THEN ret[p] \in AloneReturns(p) ELSE ret[p] = NoReturn

\* Both calls are under way at once, one of them between its registration
\* and its auto-cancel, and the other ends meanwhile.
C16_Witness ==
    /\ pc[1] = "auto_cancelling"
    /\ config[1].test_mode
    /\ Done(2)
    /\ Registering(2)
    /\ ~config[2].test_mode
    /\ Len(requests[2]) = 2
    /\ ReturnedResult(2)

\* C17: the goods of the registration payload are as many as the payment's
\* line items, and the i-th record carries the quantity, the description and
\* the minor-unit gross price of the i-th line item.
RegistrationPayload(p) == requests[p][1].json.transactions[1][1]

\* A Decimal amount (in hundredths) as a whole number of minor units.
MinorUnits(hundredths, currency) ==
    IF currency = "JPY" THEN hundredths \div 100 ELSE hundredths

C17_GoodsFollowLines ==
    \A p \in Procs :
        (Registering(p) /\ requests[p] # <<>>) =>
            LET goods == RegistrationPayload(p).goods[1]
                lines == payment_information[p].lines
            IN  /\ Len(goods) = Len(lines)
                /\ \A i \in 1..Len(lines) :
                      /\ goods[i].quantity = lines[i].quantity
                      /\ goods[i].goods_name = lines[i].description
                      /\ goods[i].goods_price =
                            MinorUnits(lines[i].gross, payment_information[p].currency)

C17_Witness ==
    \E p \in Procs :
        /\ Registering(p)
        /\ requests[p] # <<>>
        /\ payment_information[p].currency = "USD"
        /\ payment_information[p].lines =
              <<[quantity |-> 2, description |-> "b", gross |-> 1999],
                [quantity |-> 1, description |-> "a", gross |-> 100]>>
        /\ RegistrationPayload(p).goods[1][1].goods_price = 1999
        /\ RegistrationPayload(p).goods[1][2].goods_name = "a"

\* C18: the tel of the billing and of the shipping party is the party's phone
\* with a leading "+81" replaced by "0"; a phone that does not start with
\* "+81" is transmitted unchanged, also when "+81" occurs elsewhere in it.
CallingCode == <<"+", "8", "1">>

LeadingCodeReplaced(phone) ==
    IF Len(phone) >= 3 /\ SubSeq(phone, 1, 3) = CallingCode
    THEN <<"0">> \o SubSeq(phone, 4, Len(phone))
    ELSE phone

C18_TelReplacesLeadingCode ==
    \A p \in Procs :
        (Registering(p) /\ requests[p] # <<>>) =>
            /\ RegistrationPayload(p).customer[1].tel =
                  LeadingCodeReplaced(payment_information[p].billing[1].phone)
            /\ RegistrationPayload(p).dest_customer[1].tel =
                  LeadingCodeReplaced(payment_information[p].shipping[1].phone)

====
